---------------------------- MODULE Spec2Model ----------------------------
(***************************************************************************)
(* The request-admission subsystem of vto-mvp: the in-memory RateLimiter   *)
(* singleton (utils/rateLimiter.ts), the rate-limit test endpoint that     *)
(* drives it, and the combine endpoint (pages/api/combine.ts).             *)
(*                                                                         *)
(* Time is the millisecond clock Date.now().  Every limiter method is      *)
(* synchronous, so one call is one atomic step taken at one clock instant; *)
(* the clock never runs backwards.  The local calendar day of an instant   *)
(* is its day index (a zone with a fixed offset).                          *)
(***************************************************************************)
EXTENDS Integers, Sequences, FiniteSets, TLC

VARIABLES
    now,          \* the wall clock, Date.now(), in ms
    globalStats,  \* RateLimiter.globalStats: [dailyCount, resetTime]
    ipData,       \* RateLimiter.ipData: Map from identity to RateLimitData
    last,         \* the last operation: its name, its identity, what it returned,
                  \* and whether the operation before it was the same call
    pre,          \* history: globalStats and ipData when that operation began
    combine       \* the combine handler: where its current run stands

vars == <<now, globalStats, ipData, last, pre, combine>>

-----------------------------------------------------------------------------
(* Program constants, rateLimiter.ts:16-20 *)
PER_IP_LIMIT == 30
DELAY_THRESHOLD == 40
GLOBAL_DAILY_LIMIT == 400
DAY_MS == 24 * 60 * 60 * 1000
DELAY_SECONDS == 60

(* Bounds of the model *)
MaxDays == 2      \* calendar days the clock runs through
MaxCount == 41    \* a single recordRequest is explored while count < MaxCount
MaxBatch == 370   \* the largest `count` posted to the simulate action

\* Instants of a day at which something can happen (ms after local midnight).
Offsets == {0, 59999, 60000}
Times == {d * DAY_MS + o : d \in 1..MaxDays, o \in Offsets}

-----------------------------------------------------------------------------
(* Strings *)
RECURSIVE IndexOf(_, _, _)
\* The first position >= i of the one-character string c in s, or 0.
IndexOf(s, c, i) ==
    IF i > Len(s) THEN 0
    ELSE IF SubSeq(s, i, i) = c THEN i
    ELSE IndexOf(s, c, i + 1)

RECURSIVE Trim(_)
Trim(s) ==
    IF Len(s) = 0 THEN s
    ELSE IF SubSeq(s, 1, 1) = " " THEN Trim(SubSeq(s, 2, Len(s)))
    ELSE IF SubSeq(s, Len(s), Len(s)) = " " THEN Trim(SubSeq(s, 1, Len(s) - 1))
    ELSE s

StartsWith(s, p) == Len(s) >= Len(p) /\ SubSeq(s, 1, Len(p)) = p

\* forwarded.split(',')[0]
FirstEntry(s) ==
    LET i == IndexOf(s, ",", 1)
    IN  IF i = 0 THEN s ELSE SubSeq(s, 1, i - 1)

\* ip.replace(/^::ffff:/, '')
StripMapped(s) ==
    IF StartsWith(s, "::ffff:") THEN SubSeq(s, 8, Len(s)) ELSE s

\* A request's network origin; "" is an absent header or address.
Req(fwd, real, conn, sock) ==
    [forwarded |-> fwd, realIp |-> real, connection |-> conn, socket |-> sock]

Requests ==
    { Req("1.1.1.1, 9.9.9.9", "", "", "2.2.2.2"),
      Req("", "", "::ffff:1.1.1.1", ""),
      Req("", "2.2.2.2", "", "1.1.1.1") }

\* getClientIP that returns the address as it found it
getClientIP_KeepsPrefix(req) ==
    IF req.forwarded # "" THEN Trim(FirstEntry(req.forwarded))
    ELSE IF req.realIp # "" THEN req.realIp
    ELSE IF req.connection # "" THEN req.connection
    ELSE IF req.socket # "" THEN req.socket
    ELSE "127.0.0.1"

getClientIP(req) ==
    LET ip == IF req.forwarded # "" THEN Trim(FirstEntry(req.forwarded))
              ELSE IF req.realIp # "" THEN req.realIp
              ELSE IF req.connection # "" THEN req.connection
              ELSE IF req.socket # "" THEN req.socket
              ELSE "127.0.0.1"
    IN  StripMapped(ip)

\* The identity of each request, resolved once.
ClientIP == [r \in Requests |-> getClientIP(r)]

IPs == {ClientIP[r] : r \in Requests}

\* Requests from which single recordRequest calls are explored.
RecordRequests == {r \in Requests : ClientIP[r] = "1.1.1.1"}

\* Requests posted to the rate-limit test endpoint, and the `count` they carry.
SimRequests == {Req("", "", "::ffff:1.1.1.1", ""), Req("", "2.2.2.2", "", "1.1.1.1")}
SimCounts == {PER_IP_LIMIT, MaxBatch}

-----------------------------------------------------------------------------
(* The limiter *)

\* The local calendar day of an instant.
Day(t) == t \div DAY_MS

\* isNewDay(timestamp), read at clock instant t.
isNewDay(timestamp, t) == Day(t) # Day(timestamp)

\* Ceil rounding down (Math.floor)
Ceil_Floor(n, d) == n \div d

\* Math.ceil(n / d) for d > 0
Ceil(n, d) == IF n % d = 0 THEN n \div d ELSE (n \div d) + 1

Max(a, b) == IF a >= b THEN a ELSE b

\* The limiter's state as a value.
Limiter(g, m) == [stats |-> g, data |-> m]

\* resetIfNewDay that resets the global counter and keeps every record
resetIfNewDay_KeepsRecords(g, m, t) ==
    IF g.resetTime = 0 \/ isNewDay(g.resetTime, t)
    THEN Limiter([dailyCount |-> 0, resetTime |-> t], m)
    ELSE Limiter(g, m)

\* resetIfNewDay that leaves the window start as it was
resetIfNewDay_KeepsWindowStart(g, m, t) ==
    IF g.resetTime = 0 \/ isNewDay(g.resetTime, t)
    THEN Limiter([dailyCount |-> 0, resetTime |-> g.resetTime],
                 [ip \in {i \in DOMAIN m : ~isNewDay(m[i].firstRequest, t)} |-> m[ip]])
    ELSE Limiter(g, m)

\* resetIfNewDay(), called at instant t on state (g, m).
resetIfNewDay(g, m, t) ==
    IF g.resetTime = 0 \/ isNewDay(g.resetTime, t)
    THEN Limiter([dailyCount |-> 0, resetTime |-> t],
                 [ip \in {i \in DOMAIN m : ~isNewDay(m[i].firstRequest, t)} |-> m[ip]])
    ELSE Limiter(g, m)

\* GetOrDefault with the default record counted as one request
GetOrDefault_CountsFromOne(m, ip, t) ==
    IF ip \in DOMAIN m THEN m[ip]
    ELSE [count |-> 1, firstRequest |-> t, lastRequest |-> t]

\* this.ipData.get(clientIP) || { count: 0, firstRequest: now, lastRequest: now }
GetOrDefault(m, ip, t) ==
    IF ip \in DOMAIN m THEN m[ip]
    ELSE [count |-> 0, firstRequest |-> t, lastRequest |-> t]

\* this.globalStats.dailyCount >= this.GLOBAL_DAILY_LIMIT
globalLimitReached(g) == g.dailyCount >= GLOBAL_DAILY_LIMIT

\* hardLimitReached with > for >=
hardLimitReached_Strict(rec) == rec.count > DELAY_THRESHOLD

\* ipData.count >= this.DELAY_THRESHOLD
hardLimitReached(rec) == rec.count >= DELAY_THRESHOLD

\* softLimitReached with > for >=
softLimitReached_AboveLimit(rec) == rec.count > PER_IP_LIMIT

\* ipData.count >= this.PER_IP_LIMIT
softLimitReached(rec) == rec.count >= PER_IP_LIMIT

\* this.DELAY_SECONDS * 1000
requiredDelay == DELAY_SECONDS * 1000

\* Math.ceil((requiredDelay - timeSinceLastRequest) / 1000)
remainingDelay(timeSinceLastRequest) ==
    Ceil(requiredDelay - timeSinceLastRequest, 1000)

GlobalRejectMessage == <<"Daily service limit reached. Please try again tomorrow!">>
HardRejectMessage ==
    <<"Daily limit reached. Thanks for using our service! Please try again tomorrow.">>
DelayMessage(seconds) == <<"Please wait ", seconds, " seconds before your next try-on.">>

\* Decision with the per-identity tests made before the global test
Decision_IdentityFirst(s, ip, t) ==
    LET rec == GetOrDefault(s.data, ip, t)
        timeSinceLastRequest == t - rec.lastRequest
    IN  IF hardLimitReached(rec)
        THEN [allowed |-> FALSE, message |-> HardRejectMessage]
        ELSE IF softLimitReached(rec) /\ timeSinceLastRequest < requiredDelay
        THEN [allowed |-> FALSE,
              delay |-> remainingDelay(timeSinceLastRequest),
              message |-> DelayMessage(remainingDelay(timeSinceLastRequest))]
        ELSE IF globalLimitReached(s.stats)
        THEN [allowed |-> FALSE, message |-> GlobalRejectMessage]
        ELSE [allowed |-> TRUE,
              remainingCalls |-> Max(0, PER_IP_LIMIT - rec.count),
              globalRemaining |-> Max(0, GLOBAL_DAILY_LIMIT - s.stats.dailyCount)]

\* The decision checkRateLimit returns on the state s left by resetIfNewDay.
Decision(s, ip, t) ==
    LET rec == GetOrDefault(s.data, ip, t)
        timeSinceLastRequest == t - rec.lastRequest
    IN  IF globalLimitReached(s.stats)
        THEN [allowed |-> FALSE, message |-> GlobalRejectMessage]
        ELSE IF hardLimitReached(rec)
        THEN [allowed |-> FALSE, message |-> HardRejectMessage]
        ELSE IF softLimitReached(rec) /\ timeSinceLastRequest < requiredDelay
        THEN [allowed |-> FALSE,
              delay |-> remainingDelay(timeSinceLastRequest),
              message |-> DelayMessage(remainingDelay(timeSinceLastRequest))]
        ELSE [allowed |-> TRUE,
              remainingCalls |-> Max(0, PER_IP_LIMIT - rec.count),
              globalRemaining |-> Max(0, GLOBAL_DAILY_LIMIT - s.stats.dailyCount)]

\* checkRateLimit that also counts the request it admits
checkRateLimit_Recording(g, m, ip, t) ==
    LET s == resetIfNewDay(g, m, t)
        d == Decision(s, ip, t)
        rec == GetOrDefault(s.data, ip, t)
        upd == [rec EXCEPT !.count = @ + 1, !.lastRequest = t]
    IN  IF d.allowed
        THEN [stats |-> [s.stats EXCEPT !.dailyCount = @ + 1],
              data |-> [i \in DOMAIN s.data \cup {ip} |-> IF i = ip THEN upd ELSE s.data[i]],
              res |-> d]
        ELSE [stats |-> s.stats, data |-> s.data, res |-> d]

\* checkRateLimit(req) at instant t: the state it leaves and what it returns.
checkRateLimit(g, m, ip, t) ==
    LET s == resetIfNewDay(g, m, t)
    IN  [stats |-> s.stats, data |-> s.data, res |-> Decision(s, ip, t)]

\* recordRequest that restarts the record's firstRequest at every call
recordRequest_RestartsFirst(g, m, ip, t) ==
    LET s == resetIfNewDay(g, m, t)
        rec == GetOrDefault(s.data, ip, t)
        upd == [rec EXCEPT !.count = @ + 1, !.firstRequest = t, !.lastRequest = t]
    IN  Limiter([s.stats EXCEPT !.dailyCount = @ + 1],
                [i \in DOMAIN s.data \cup {ip} |-> IF i = ip THEN upd ELSE s.data[i]])

\* recordRequest that moves firstRequest and leaves lastRequest
recordRequest_MovesFirst(g, m, ip, t) ==
    LET s == resetIfNewDay(g, m, t)
        rec == GetOrDefault(s.data, ip, t)
        upd == [rec EXCEPT !.count = @ + 1, !.firstRequest = t]
    IN  Limiter([s.stats EXCEPT !.dailyCount = @ + 1],
                [i \in DOMAIN s.data \cup {ip} |-> IF i = ip THEN upd ELSE s.data[i]])

\* recordRequest that starts the count again once the soft limit is reached
recordRequest_ForgetsCount(g, m, ip, t) ==
    LET s == resetIfNewDay(g, m, t)
        rec == GetOrDefault(s.data, ip, t)
        upd == [rec EXCEPT !.count = IF @ >= PER_IP_LIMIT THEN 1 ELSE @ + 1,
                           !.lastRequest = t]
    IN  Limiter([s.stats EXCEPT !.dailyCount = @ + 1],
                [i \in DOMAIN s.data \cup {ip} |-> IF i = ip THEN upd ELSE s.data[i]])

\* recordRequest that stamps every stored record with the instant of the call
recordRequest_StampsAll(g, m, ip, t) ==
    LET s == resetIfNewDay(g, m, t)
        rec == GetOrDefault(s.data, ip, t)
        upd == [rec EXCEPT !.count = @ + 1, !.lastRequest = t]
    IN  Limiter([s.stats EXCEPT !.dailyCount = @ + 1],
                [i \in DOMAIN s.data \cup {ip} |->
                    IF i = ip THEN upd ELSE [s.data[i] EXCEPT !.lastRequest = t]])

\* recordRequest(req) at instant t: the state it leaves.
recordRequest(g, m, ip, t) ==
    LET s == resetIfNewDay(g, m, t)
        rec == GetOrDefault(s.data, ip, t)
        upd == [rec EXCEPT !.count = @ + 1, !.lastRequest = t]
    IN  Limiter([s.stats EXCEPT !.dailyCount = @ + 1],
                [i \in DOMAIN s.data \cup {ip} |-> IF i = ip THEN upd ELSE s.data[i]])

\* recordTimes whose calls all start from the state the first one read
recordTimes_LostUpdates(g, m, ip, t, k) ==
    IF k <= 0 THEN Limiter(g, m)
    ELSE recordRequest(g, m, ip, t)

RECURSIVE recordTimes(_, _, _, _, _)
\* for (let i = 0; i < simulatedCount; i++) rateLimiter.recordRequest(req)
\* k calls in a row, evaluated as the first k \div 2 calls followed by the rest
\* (the state after the first run is computed before the second run starts).
recordTimes(g, m, ip, t, k) ==
    IF k <= 0 THEN Limiter(g, m)
    ELSE IF k = 1 THEN recordRequest(g, m, ip, t)
    ELSE LET firstRun == {recordTimes(g, m, ip, t, k \div 2)}
         IN  CHOOSE s \in {recordTimes(f.stats, f.data, ip, t, k - (k \div 2)) : f \in firstRun} : TRUE

\* getStats() at instant t: the state it leaves and what it returns.
getStats(g, m, t) ==
    LET s == resetIfNewDay(g, m, t)
    IN  [stats |-> s.stats, data |-> s.data,
         res |-> [totalIPs |-> Cardinality(DOMAIN s.data),
                  globalDailyCount |-> s.stats.dailyCount,
                  globalRemaining |-> Max(0, GLOBAL_DAILY_LIMIT - s.stats.dailyCount)]]

-----------------------------------------------------------------------------
(* The state machine of the limiter *)

Init ==
    /\ now = DAY_MS
    /\ globalStats = [dailyCount |-> 0, resetTime |-> 0]
    /\ ipData = << >>
    /\ last = [op |-> "new", ip |-> "", again |-> FALSE]
    /\ pre = Limiter([dailyCount |-> 0, resetTime |-> 0], << >>)
    /\ combine = [pc |-> "idle"]

\* Whether the operation now starting repeats the last one: the same method for
\* the same identity (the clock has not moved, or `last` would be a tick).
Again(op, ip) == last.op = op /\ last.ip = ip

\* The clock advances to a later instant.
Tick ==
    /\ \E t \in Times : t > now /\ now' = t
    /\ last' = [op |-> "tick", ip |-> "", again |-> FALSE]
    /\ pre' = Limiter(globalStats, ipData)
    /\ UNCHANGED <<globalStats, ipData, combine>>

\* rateLimiter.checkRateLimit(req)
Check(req) ==
    \E r \in {checkRateLimit(globalStats, ipData, ClientIP[req], now)} :
        /\ globalStats' = r.stats
        /\ ipData' = r.data
        /\ last' = [op |-> "check", ip |-> ClientIP[req], again |-> Again("check", ClientIP[req]),
                    res |-> r.res]
        /\ pre' = Limiter(globalStats, ipData)
        /\ UNCHANGED <<now, combine>>

\* rateLimiter.recordRequest(req)
Record(req) ==
    /\ GetOrDefault(ipData, ClientIP[req], now).count < MaxCount
    /\ \E r \in {recordRequest(globalStats, ipData, ClientIP[req], now)} :
        /\ globalStats' = r.stats
        /\ ipData' = r.data
        /\ last' = [op |-> "record", ip |-> ClientIP[req],
                    again |-> Again("record", ClientIP[req])]
        /\ pre' = Limiter(globalStats, ipData)
        /\ UNCHANGED <<now, combine>>

\* rateLimiter.getStats()
Stats ==
    \E r \in {getStats(globalStats, ipData, now)} :
        /\ globalStats' = r.stats
        /\ ipData' = r.data
        /\ last' = [op |-> "stats", ip |-> "", again |-> Again("stats", ""), res |-> r.res]
        /\ pre' = Limiter(globalStats, ipData)
        /\ UNCHANGED <<now, combine>>

Next ==
    \/ Tick
    \/ \E req \in Requests : Check(req)
    \/ \E req \in RecordRequests : Record(req)
    \/ Stats

Spec == Init /\ [][Next]_vars

-----------------------------------------------------------------------------
(* The limiter under callers that call recordRequest only directly after a   *)
(* checkRateLimit of theirs that allowed them.                               *)

MaxWaits == 10      \* delay periods the clock runs through on a day
MaxCallers == 14    \* identities that call

\* The identities of the callers.
Callers == [k \in 1..MaxCallers |-> "10.0.0." \o ToString(k)]

\* The record a limiter call made now finds for the identity.
Today(ip) ==
    GetOrDefault(resetIfNewDay(globalStats, ipData, now).data, ip, now)

\* The last instant of a day the clock is followed to.
LastInstant == Day(now) * DAY_MS + MaxWaits * requiredDelay

\* The order the callers come in: the first caller at any time; the others
\* at the last instant of the day, once the first has used up its day, each
\* after the one before it has made its PER_IP_LIMIT requests, and with no
\* more than PER_IP_LIMIT requests each.
Turn(k) ==
    \/ k = 1
    \/ /\ now = LastInstant
       /\ Today(Callers[1]).count >= DELAY_THRESHOLD
       /\ \A j \in 2..(k - 1) : Today(Callers[j]).count >= PER_IP_LIMIT

\* The clock advances to the last millisecond before the next full delay
\* period of the day, or from there to the full period.  The first caller
\* makes its first PER_IP_LIMIT requests of a day at midnight: the clock is
\* followed from there.
GatedTick ==
    /\ Today(Callers[1]).count >= PER_IP_LIMIT
    /\ now < LastInstant
    /\ now' = IF now % requiredDelay = 0 THEN now + requiredDelay - 1 ELSE now + 1
    /\ last' = [op |-> "tick", ip |-> "", again |-> FALSE]
    /\ pre' = Limiter(globalStats, ipData)
    /\ UNCHANGED <<globalStats, ipData, combine>>

\* The clock advances to the next midnight.
GatedMidnight ==
    /\ Day(now) < MaxDays
    /\ now' = (Day(now) + 1) * DAY_MS
    /\ last' = [op |-> "tick", ip |-> "", again |-> FALSE]
    /\ pre' = Limiter(globalStats, ipData)
    /\ UNCHANGED <<globalStats, ipData, combine>>

\* rateLimiter.checkRateLimit(req) of caller k
GatedCheck(k) ==
    /\ Turn(k)
    /\ \E r \in {checkRateLimit(globalStats, ipData, Callers[k], now)} :
        /\ globalStats' = r.stats
        /\ ipData' = r.data
        /\ last' = [op |-> "check", ip |-> Callers[k], again |-> Again("check", Callers[k]),
                    res |-> r.res]
        /\ pre' = Limiter(globalStats, ipData)
        /\ UNCHANGED <<now, combine>>

\* rateLimiter.recordRequest(req) of caller k, whose checkRateLimit was the
\* limiter's last operation and allowed it.
GatedRecord(k) ==
    /\ last.op = "check"
    /\ last.ip = Callers[k]
    /\ last.res.allowed
    /\ k > 1 => Today(Callers[k]).count < PER_IP_LIMIT
    /\ \E r \in {recordRequest(globalStats, ipData, Callers[k], now)} :
        /\ globalStats' = r.stats
        /\ ipData' = r.data
        /\ last' = [op |-> "record", ip |-> Callers[k], again |-> FALSE]
        /\ pre' = Limiter(globalStats, ipData)
        /\ UNCHANGED <<now, combine>>

NextGated ==
    \/ GatedTick
    \/ GatedMidnight
    \/ \E k \in 1..MaxCallers : GatedCheck(k)
    \/ \E k \in 1..MaxCallers : GatedRecord(k)

SpecGated == Init /\ [][NextGated]_vars

-----------------------------------------------------------------------------
(* The identities of requests: two requests recorded one after the other *)

\* Requests with every combination of headers and addresses, present or not.
KeyRequests ==
    { Req(fwd, real, conn, sock) :
        fwd \in {"", "1.1.1.1", "1.1.1.1, 9.9.9.9", " ::ffff:1.1.1.1 ,9.9.9.9", ",2.2.2.2"},
        real \in {"", "2.2.2.2", "::ffff:2.2.2.2"},
        conn \in {"", "::ffff:1.1.1.1", "3.3.3.3"},
        sock \in {"", "::ffff:3.3.3.3"} }

\* Two requests have come, neither recorded yet.
InitKey ==
    /\ now = DAY_MS
    /\ globalStats = [dailyCount |-> 0, resetTime |-> 0]
    /\ ipData = << >>
    /\ last = [op |-> "new", ip |-> "", again |-> FALSE]
    /\ pre = Limiter([dailyCount |-> 0, resetTime |-> 0], << >>)
    /\ combine \in {[pc |-> "requests", todo |-> <<r1, r2>>, recorded |-> << >>] :
                        r1 \in KeyRequests, r2 \in KeyRequests}

\* rateLimiter.recordRequest(req) of the next of the requests
RecordNext ==
    /\ combine.pc = "requests"
    /\ combine.todo # << >>
    /\ \E r \in {recordRequest(globalStats, ipData, getClientIP(Head(combine.todo)), now)} :
        /\ globalStats' = r.stats
        /\ ipData' = r.data
    /\ last' = [op |-> "record", ip |-> getClientIP(Head(combine.todo)), again |-> FALSE]
    /\ pre' = Limiter(globalStats, ipData)
    /\ combine' = [combine EXCEPT !.todo = Tail(@),
                                  !.recorded = Append(@, Head(combine.todo))]
    /\ UNCHANGED now

NextKey == RecordNext

SpecKey == InitKey /\ [][NextKey]_vars

-----------------------------------------------------------------------------
(* The rate-limit test endpoint: one POST is one synchronous handler run *)

\* parseInt(count) || 1
simulatedCount(count) == IF count = 0 THEN 1 ELSE count

\* The body of a JSON response: a field whose value is undefined is left out.
WithDelay(body, res) ==
    IF "delay" \in DOMAIN res
    THEN [f \in DOMAIN body \cup {"retryAfter"} |->
            IF f = "retryAfter" THEN res.delay ELSE body[f]]
    ELSE body

\* LimitType that knows one type only
LimitType_AlwaysLimitReached(res) == "limit_reached"

\* rateLimit.delay ? 'delay' : 'limit_reached'
LimitType(res) ==
    IF "delay" \in DOMAIN res /\ res.delay # 0 THEN "delay" ELSE "limit_reached"

\* What one POST to the endpoint does at instant t on state (g, m): the state it
\* leaves, the limiter's decision if one was asked for, and the response.
Handled(lim, res, status, body) ==
    [stats |-> lim.stats, data |-> lim.data, res |-> res, status |-> status, body |-> body]

\* action === 'simulate', after the check c
simulateAfter(c, ip, t, count) ==
    IF ~c.res.allowed
    THEN Handled(c, c.res, 429,
                 WithDelay([error |-> c.res.message,
                            type |-> LimitType(c.res),
                            currentCount |-> "unknown"], c.res))
    ELSE CHOOSE h \in
           { Handled(st, c.res, 200,
                     [message |-> <<"Simulated ", simulatedCount(count), " requests">>,
                      stats |-> st.res, currentCount |-> simulatedCount(count)]) :
             st \in { getStats(s.stats, s.data, t) :
                      s \in {recordTimes(c.stats, c.data, ip, t, simulatedCount(count))} } } : TRUE

simulate(g, m, ip, t, count) ==
    CHOOSE h \in {simulateAfter(c, ip, t, count) : c \in {checkRateLimit(g, m, ip, t)}} : TRUE

\* action === 'check'
checkAction(g, m, ip, t) ==
    CHOOSE h \in
      { Handled(st, c.res, 200,
                [f \in DOMAIN c.res \cup {"stats"} |->
                    IF f = "stats" THEN st.res ELSE c.res[f]]) :
        <<c, st>> \in { <<c1, getStats(c1.stats, c1.data, t)>> :
                        c1 \in {checkRateLimit(g, m, ip, t)} } } : TRUE

\* action === 'reset'
resetAction(g, m, t) ==
    CHOOSE h \in
      { Handled(st, [none |-> TRUE], 200,
                [message |-> "Rate limiter reset for testing", stats |-> st.res]) :
        st \in {getStats(g, m, t)} } : TRUE

\* The step of the model that one handled POST is.
Respond(op, ip, h) ==
    /\ globalStats' = h.stats
    /\ ipData' = h.data
    /\ last' = [op |-> op, ip |-> ip, again |-> Again(op, ip),
                res |-> h.res, status |-> h.status, body |-> h.body]
    /\ pre' = Limiter(globalStats, ipData)
    /\ UNCHANGED <<now, combine>>

TestSimulate(req, count) ==
    \E h \in {simulate(globalStats, ipData, ClientIP[req], now, count)} :
        Respond("simulate", ClientIP[req], h)

TestCheck(req) ==
    \E h \in {checkAction(globalStats, ipData, ClientIP[req], now)} :
        Respond("check", ClientIP[req], h)

TestReset ==
    \E h \in {resetAction(globalStats, ipData, now)} :
        Respond("reset", "", h)

NextTest ==
    \/ Tick
    \/ \E req \in SimRequests, count \in SimCounts : TestSimulate(req, count)
    \/ \E req \in SimRequests : TestCheck(req)
    \/ TestReset

SpecTest == Init /\ [][NextTest]_vars

-----------------------------------------------------------------------------
(* The combine endpoint, pages/api/combine.ts.  The handler is async: it    *)
(* runs from one await to the next in one step, and limiter operations of   *)
(* other requests can run while it waits.                                   *)

MAX_FILE_SIZE == 4 * 1024 * 1024
MAX_DIMENSION == 1024

UpperCase == "ABCDEFGHIJKLMNOPQRSTUVWXYZ"
LowerCase == "abcdefghijklmnopqrstuvwxyz"

\* toLowerCase() of a one-character string
LowerChar(c) ==
    LET i == IndexOf(UpperCase, c, 1)
    IN  IF i = 0 THEN c ELSE SubSeq(LowerCase, i, i)

RECURSIVE Lower(_)
\* s.toLowerCase(), by halves
Lower(s) ==
    IF Len(s) = 0 THEN s
    ELSE IF Len(s) = 1 THEN LowerChar(s)
    ELSE Lower(SubSeq(s, 1, Len(s) \div 2)) \o Lower(SubSeq(s, (Len(s) \div 2) + 1, Len(s)))

\* s.includes(p)
Includes(s, p) ==
    \E i \in 1..(Len(s) - Len(p) + 1) : SubSeq(s, i, i + Len(p) - 1) = p

\* s.substring(0, n)
Substring0(s, n) == IF Len(s) <= n THEN s ELSE SubSeq(s, 1, n)

\* The first bytes of a file of each format.
JpegHead == <<255, 216, 255>>
PngHead == <<137, 80, 78>>
GifHead == <<71, 73, 70>>
RiffHead == <<82, 73, 70>>
TextHead == <<104, 105>>

\* An uploaded file as formidable hands it over; mimetype "" is an undefined
\* mimetype and size is the number of its bytes.  Of the bytes at its filepath
\* the model keeps an identity (name) and the leading ones (head).  width,
\* height and decodable are what sharp finds in them.
UploadedFile(name, head, mimetype, size, width, height, decodable) ==
    [present |-> TRUE, name |-> name, head |-> head, mimetype |-> mimetype, size |-> size,
     width |-> width, height |-> height, decodable |-> decodable]

NoFile == [present |-> FALSE]

PersonJpeg == UploadedFile("person.jpg", JpegHead, "image/jpeg", 300000, 800, 600, TRUE)
GarmentPng == UploadedFile("garment.png", PngHead, "image/png", 3000000, 2048, 1024, TRUE)

HugeJpeg == UploadedFile("huge.jpg", JpegHead, "image/jpeg", MAX_FILE_SIZE + 1, 4000, 3000, TRUE)

Files ==
    { PersonJpeg, GarmentPng,
      UploadedFile("tall.png", PngHead, "image/png", 500000, 600, 1500, TRUE),
      UploadedFile("exact.png", PngHead, "image/png", MAX_FILE_SIZE, 1024, 1024, TRUE),
      UploadedFile("photo.webp", RiffHead, "image/webp", 200000, 640, 480, TRUE),
      UploadedFile("anim.gif", GifHead, "image/gif", 90000, 500, 500, TRUE),
      UploadedFile("notes.txt", TextHead, "text/plain", 120, 0, 0, FALSE),
      UploadedFile("blob", TextHead, "", 120, 0, 0, FALSE),
      UploadedFile("broken.gif", TextHead, "image/gif", 2000, 0, 0, FALSE),
      HugeJpeg }

\* A request to the endpoint: its network origin, method and multipart fields.
CombineRequest(origin, method, person, garment, prompt) ==
    [origin |-> origin, method |-> method, person |-> person, garment |-> garment,
     prompt |-> prompt]

FirstOrigin == Req("", "", "::ffff:1.1.1.1", "")

CombineRequests ==
    {CombineRequest(o, "POST", PersonJpeg, GarmentPng, p) :
        o \in SimRequests, p \in {"", "Swap the jacket"}}
    \cup {CombineRequest(FirstOrigin, "GET", PersonJpeg, GarmentPng, "")}
    \cup {CombineRequest(FirstOrigin, "POST", f, GarmentPng, "") : f \in Files \cup {NoFile}}
    \cup {CombineRequest(FirstOrigin, "POST", PersonJpeg, f, "") : f \in Files \cup {NoFile}}
    \cup {CombineRequest(FirstOrigin, "POST", NoFile, f, "") : f \in {NoFile, HugeJpeg}}

\* process.env.GEMINI_API_KEY || process.env.NEXT_PUBLIC_GEMINI_API_KEY
ApiKeys == {"", "AIza-key"}

\* A value returned, or an Error thrown with a message.
Returned(value) == [ok |-> TRUE, value |-> value]
Thrown(message) == [ok |-> FALSE, message |-> message]

\* An HTTP response of the handler.
Response(status, body) == [status |-> status, body |-> body]
ErrorResponse(status, error) == Response(status, [error |-> error])

\* The bytes of file data a form carries.
fileBytes(r) ==
    (IF r.person.present THEN r.person.size ELSE 0)
    + (IF r.garment.present THEN r.garment.size ELSE 0)

\* The Errors with which formidable refuses file data beyond its limits: the
\* text names the option that its version counts against.
FormLimitErrors ==
    { Thrown("options.maxFileSize (4194304 bytes) exceeded, received 4194305 bytes of file data"),
      Thrown("options.maxTotalFileSize (4194304 bytes) exceeded, received 4194305 bytes of file data") }

\* parseForm(req): the outcomes of form.parse under formidable({ maxFileSize:
\* MAX_FILE_SIZE, maxFiles: 2 }).  A form with a file larger than maxFileSize
\* is rejected.  A form whose files are each within it and together beyond it
\* is rejected by the versions that count every file of the form against the
\* limit and parsed by the others.
parseForm(r) ==
    LET parsed == Returned([person |-> r.person, garment |-> r.garment, prompt |-> r.prompt])
    IN  IF \E f \in {r.person, r.garment} : f.present /\ f.size > MAX_FILE_SIZE
        THEN FormLimitErrors
        ELSE IF fileBytes(r) > MAX_FILE_SIZE
        THEN FormLimitErrors \cup {parsed}
        ELSE {parsed}

\* validateImage with the size limit exclusive
validateImage_SizeExclusive(file) ==
    IF ~StartsWith(file.mimetype, "image/")
    THEN [valid |-> FALSE, error |-> "File must be an image"]
    ELSE IF file.mimetype = "image/webp"
    THEN [valid |-> FALSE, error |-> "WebP format not supported. Please use JPG or PNG."]
    ELSE IF file.size >= MAX_FILE_SIZE
    THEN [valid |-> FALSE, error |-> "Image too large. Maximum size is 4MB."]
    ELSE [valid |-> TRUE]

\* validateImage that lets WebP through
validateImage_AcceptsWebp(file) ==
    IF ~StartsWith(file.mimetype, "image/")
    THEN [valid |-> FALSE, error |-> "File must be an image"]
    ELSE IF file.size > MAX_FILE_SIZE
    THEN [valid |-> FALSE, error |-> "Image too large. Maximum size is 4MB."]
    ELSE [valid |-> TRUE]

\* validateImage(file)
validateImage(file) ==
    IF ~StartsWith(file.mimetype, "image/")
    THEN [valid |-> FALSE, error |-> "File must be an image"]
    ELSE IF file.mimetype = "image/webp"
    THEN [valid |-> FALSE, error |-> "WebP format not supported. Please use JPG or PNG."]
    ELSE IF file.size > MAX_FILE_SIZE
    THEN [valid |-> FALSE, error |-> "Image too large. Maximum size is 4MB."]
    ELSE [valid |-> TRUE]

\* Math.round(n / d) for n >= 0, d > 0
RoundDiv(n, d) == (2 * n + d) \div (2 * d)

\* resize to fit: 'fill': both sides become MAX_DIMENSION
resizeInside_Fill(width, height) ==
    [width |-> MAX_DIMENSION, height |-> MAX_DIMENSION]

\* resize(MAX_DIMENSION, MAX_DIMENSION, { fit: 'inside' }): the longer side
\* becomes MAX_DIMENSION and the other one is scaled by the same factor, to
\* the nearest pixel and to one pixel at least.
resizeInside(width, height) ==
    IF width >= height
    THEN [width |-> MAX_DIMENSION,
          height |-> Max(1, RoundDiv(height * MAX_DIMENSION, width))]
    ELSE [width |-> Max(1, RoundDiv(width * MAX_DIMENSION, height)),
          height |-> MAX_DIMENSION]

Base64Alphabet == "ABCDEFGHIJKLMNOPQRSTUVWXYZabcdefghijklmnopqrstuvwxyz0123456789+/"

\* The base64 digit of a 6-bit value.
Base64Digit(v) == SubSeq(Base64Alphabet, v + 1, v + 1)

RECURSIVE Base64(_)
\* Buffer.toString('base64') of a sequence of bytes
Base64(bytes) ==
    IF Len(bytes) = 0 THEN ""
    ELSE IF Len(bytes) = 1
    THEN Base64Digit(bytes[1] \div 4) \o Base64Digit((bytes[1] % 4) * 16) \o "=="
    ELSE IF Len(bytes) = 2
    THEN Base64Digit(bytes[1] \div 4)
         \o Base64Digit((bytes[1] % 4) * 16 + (bytes[2] \div 16))
         \o Base64Digit((bytes[2] % 16) * 4) \o "="
    ELSE Base64Digit(bytes[1] \div 4)
         \o Base64Digit((bytes[1] % 4) * 16 + (bytes[2] \div 16))
         \o Base64Digit((bytes[2] % 16) * 4 + (bytes[3] \div 64))
         \o Base64Digit(bytes[3] % 64)
         \o Base64(SubSeq(bytes, 4, Len(bytes)))

\* A buffer of image bytes: which bytes they are, the leading ones, and the
\* size of the image they encode.
Buffer(bytes, head, width, height) ==
    [bytes |-> bytes, head |-> head, width |-> width, height |-> height]

\* fs.readFileSync(file.filepath)
readFile(file) == Buffer(file.name, file.head, file.width, file.height)

\* sharp(buffer).resize(...).toBuffer(): new bytes in the format of the input.
resized(buffer) ==
    LET size == resizeInside(buffer.width, buffer.height)
    IN  Buffer("resized:" \o buffer.bytes, buffer.head, size.width, size.height)

\* processedBuffer.toString('base64'): the text, known by its leading digits
\* and by the bytes and the image it encodes.
toBase64(buffer) ==
    [base64 |-> Base64(buffer.head), bytes |-> buffer.bytes,
     size |-> [width |-> buffer.width, height |-> buffer.height]]

\* processImage that resizes every image
processImage_AlwaysResizes(file) ==
    IF ~file.decodable
    THEN Thrown("Input buffer contains unsupported image format")
    ELSE Returned(toBase64(resized(readFile(file))))

\* processImage(file): the base64 text of the image, downscaled if a side is
\* longer than MAX_DIMENSION; sharp throws on bytes it cannot decode.
processImage(file) ==
    IF ~file.decodable
    THEN Thrown("Input buffer contains unsupported image format")
    ELSE IF file.width > MAX_DIMENSION \/ file.height > MAX_DIMENSION
    THEN Returned(toBase64(resized(readFile(file))))
    ELSE Returned(toBase64(readFile(file)))

DefaultPrompt ==
    "Blend these two images: Put the garment from the second image onto the person in the first image. Create a realistic virtual try-on by editing the person to wear the garment while maintaining their pose, face, and natural lighting. Generate the final edited image."

\* a || b for strings
OrElse(a, b) == IF a # "" THEN a ELSE b

\* The body callGeminiAPI posts to the provider.
requestBody(personBase64, garmentBase64, personMimeType, garmentMimeType, customPrompt) ==
    [parts |-> << [mime_type |-> personMimeType, data |-> personBase64],
                  [mime_type |-> garmentMimeType, data |-> garmentBase64],
                  [text |-> customPrompt] >>,
     maxOutputTokens |-> 8192]

\* What the provider's endpoint can answer to the fetch.
HttpFailure(status, text) == [kind |-> "status", ok |-> FALSE, status |-> status, text |-> text]
JsonReply(candidates) == [kind |-> "json", ok |-> TRUE, status |-> 200, candidates |-> candidates]
NotJson(text) == [kind |-> "text", ok |-> TRUE, status |-> 200, text |-> text]
NetworkFailure == [kind |-> "network"]

\* A candidate of the provider's JSON body; finishReason "" is an absent one.
Candidate(finishReason, parts) == [finishReason |-> finishReason, parts |-> parts]

\* A part of a candidate's content; "" and NoText are absent fields.  A text
\* is its value, known by its length and by whether it matches
\* /^[A-Za-z0-9+/]+=*$/.
Text(value, length, base64) == [value |-> value, length |-> length, base64 |-> base64]
NoText == Text("", 0, FALSE)
Part(inline_data, inlineData, text) ==
    [inline_data |-> inline_data, inlineData |-> inlineData, text |-> text]

\* The 2xx answers with completion status STOP or none whose first part holds
\* image data in none, one or several of the three places.
ImageReplies ==
    { JsonReply(<<Candidate(finishReason, <<Part(inline_data, inlineData, text)>>)>>) :
        finishReason \in {"", "STOP"},
        inline_data \in {"", "IMG-A"},
        inlineData \in {"", "IMG-A", "IMG-B"},
        text \in { NoText, Text("IMG-A", 1001, TRUE), Text("IMG-C", 1001, TRUE),
                   Text("IMG-D", 1000, TRUE), Text("Here is your image", 1001, FALSE) } }

ProviderReplies ==
    ImageReplies \cup
    { JsonReply(<<Candidate("STOP", <<Part("IMG-A", "", NoText)>>)>>),
      JsonReply(<<Candidate("", <<Part("", "IMG-B", NoText)>>)>>),
      JsonReply(<<Candidate("STOP", <<Part("", "", Text("IMG-C", 1001, TRUE))>>)>>),
      JsonReply(<<Candidate("STOP", <<Part("", "", Text("IMG-D", 1000, TRUE))>>)>>),
      JsonReply(<<Candidate("SAFETY", << >>)>>),
      JsonReply(<<Candidate("SAFETY", <<Part("IMG-E", "", NoText)>>)>>),
      JsonReply(<<Candidate("RECITATION", <<Part("", "IMG-F", NoText)>>)>>),
      JsonReply(<<Candidate("RECITATION", << >>)>>),
      JsonReply(<<Candidate("MAX_TOKENS", << >>)>>),
      JsonReply(<< >>),
      JsonReply(<<Candidate("STOP", << >>)>>),
      JsonReply(<<Candidate("", << >>)>>),
      HttpFailure(500, "<html><body>Internal error</body></html>"),
      HttpFailure(429, "{\"error\":{\"message\":\"Resource has been exhausted (e.g. check quota).\"}}"),
      HttpFailure(400, "{\"error\":{\"message\":\"API key not valid. Please pass a valid API key.\"}}"),
      HttpFailure(503, "The model is overloaded"),
      NotJson("<html><body>Sign in</body></html>"),
      NetworkFailure }

\* resultData that tries the camelCase place before the snake_case one
resultData_CamelFirst(candidates) ==
    IF Len(candidates) = 0 \/ Len(candidates[1].parts) = 0 THEN ""
    ELSE LET part == candidates[1].parts[1]
         IN  IF part.inlineData # "" THEN part.inlineData
             ELSE IF part.inline_data # "" THEN part.inline_data
             ELSE IF part.text.length > 1000 /\ part.text.base64 THEN part.text.value
             ELSE ""

\* resultData that takes a base64 text of any length for image data
resultData_AnyText(candidates) ==
    IF Len(candidates) = 0 \/ Len(candidates[1].parts) = 0 THEN ""
    ELSE LET part == candidates[1].parts[1]
         IN  IF part.inline_data # "" THEN part.inline_data
             ELSE IF part.inlineData # "" THEN part.inlineData
             ELSE IF part.text.base64 THEN part.text.value
             ELSE ""

\* The image data found in result.candidates[0].content.parts[0], or "".
resultData(candidates) ==
    IF Len(candidates) = 0 \/ Len(candidates[1].parts) = 0 THEN ""
    ELSE LET part == candidates[1].parts[1]
         IN  IF part.inline_data # "" THEN part.inline_data
             ELSE IF part.inlineData # "" THEN part.inlineData
             ELSE IF part.text.length > 1000 /\ part.text.base64 THEN part.text.value
             ELSE ""

\* callGeminiAPIResult that looks for the image without reading finishReason
callGeminiAPIResult_IgnoresFinishReason(reply) ==
    IF reply.kind = "network" THEN Thrown("fetch failed")
    ELSE IF ~reply.ok
    THEN Thrown("API error: " \o ToString(reply.status) \o " - " \o Substring0(reply.text, 100))
    ELSE IF reply.kind = "text" THEN Thrown("Body is unusable: Body has already been read")
    ELSE IF resultData(reply.candidates) = ""
    THEN Thrown("Invalid response from Gemini API - no image data found")
    ELSE Returned(resultData(reply.candidates))

\* JSON.parse(errorText).error?.message for the bodies the provider sends:
\* the text of the body's "message" member, "" when the body is not JSON or
\* has no such member.
errorJsonMessage(errorText) ==
    LET key == "\"message\":\""
        starts == {i \in 1..(Len(errorText) - Len(key) + 1) :
                      SubSeq(errorText, i, i + Len(key) - 1) = key}
    IN  IF ~StartsWith(errorText, "{") \/ starts = {} THEN ""
        ELSE LET from == (CHOOSE i \in starts : \A j \in starts : i <= j) + Len(key)
                 to == IndexOf(errorText, "\"", from)
             IN  IF to = 0 THEN "" ELSE SubSeq(errorText, from, to - 1)

\* The body of the `try` that parses the error details: the Error it throws
\* when the body carries error.message, and nothing otherwise.
errorDetails(errorText) ==
    IF errorJsonMessage(errorText) # ""
    THEN Thrown("API error: " \o errorJsonMessage(errorText))
    ELSE Returned("")

\* try { errorDetails } catch (parseError) { console.error(...) }: the catch
\* takes every Error thrown in the block, the one of errorDetails included,
\* and only logs.
tryErrorDetails(errorText) ==
    IF ~errorDetails(errorText).ok THEN Returned("")
    ELSE errorDetails(errorText)

\* What callGeminiAPI makes of the provider's answer: the image it returns or
\* the Error it throws.  For a non-ok status the 'API error: <status> -
\* <text>' Error is thrown once the try block of the error details ends.  A 200
\* body that is not JSON makes response.json() fail, and the response.text()
\* that follows fails on the body already read.
callGeminiAPIResult(reply) ==
    IF reply.kind = "network" THEN Thrown("fetch failed")
    ELSE IF ~reply.ok
    THEN IF Includes(reply.text, "<!DOCTYPE") \/ Includes(reply.text, "<html>")
         THEN Thrown("API endpoint returned HTML page - model may not be available or endpoint is incorrect")
         ELSE IF ~tryErrorDetails(reply.text).ok THEN tryErrorDetails(reply.text)
         ELSE Thrown("API error: " \o ToString(reply.status) \o " - " \o Substring0(reply.text, 100))
    ELSE IF reply.kind = "text" THEN Thrown("Body is unusable: Body has already been read")
    ELSE LET finishReason == IF Len(reply.candidates) = 0 THEN ""
                             ELSE reply.candidates[1].finishReason
         IN  IF finishReason = "SAFETY"
             THEN Thrown("Content generation blocked by safety filters. Try simpler images with basic clothing.")
             ELSE IF finishReason = "RECITATION"
             THEN Thrown("Content generation blocked due to potential copyright issues. Try images without logos or text.")
             ELSE IF finishReason \notin {"", "STOP"}
             THEN Thrown("Content generation failed: " \o finishReason)
             ELSE IF resultData(reply.candidates) = ""
             THEN Thrown("Invalid response from Gemini API - no image data found")
             ELSE Returned(resultData(reply.candidates))

\* The handler's catch block: the response for an Error with this message.
classifyError(message) ==
    LET errorMessage == CHOOSE m \in {Lower(message)} : TRUE
        has(p) == Includes(errorMessage, p)
    IN  IF has("gemini_api_key") \/ has("api key")
        THEN ErrorResponse(500, "Service configuration error. Please check API key.")
        ELSE IF has("401") \/ has("unauthorized") \/ has("forbidden")
        THEN ErrorResponse(502, "API authentication failed. Please check your API key permissions.")
        ELSE IF has("429") \/ has("quota") \/ has("rate limit")
        THEN ErrorResponse(502, "API quota exceeded. Please try again later.")
        ELSE IF has("timeout") \/ has("timed out")
        THEN ErrorResponse(502, "Request timed out. Please try with smaller images or try again later.")
        ELSE IF has("content generation failed") \/ has("safety")
        THEN ErrorResponse(400, "Content could not be generated. Please try different images that comply with safety guidelines.")
        ELSE IF has("maxfilesize") \/ has("file too large")
        THEN ErrorResponse(413, "File too large. Maximum size is 4MB per image.")
        ELSE IF has("gemini api")
        THEN ErrorResponse(502, "AI service error: " \o Substring0(message, 100))
        ELSE IF has("invalid response") \/ has("no image data")
        THEN ErrorResponse(502, "AI service returned invalid response. Please try again.")
        ELSE ErrorResponse(500, "An unexpected error occurred. Please try again.")

\* The handler has answered request r at the named stage of its run; fetched
\* tells whether it had called the provider for it.
Answered(stage, r, fetched, response) ==
    [pc |-> "done", stage |-> stage, req |-> r, fetched |-> fetched, response |-> response]

\* The handler from its entry to `await parseForm(req)`.
handlerEntry(r) ==
    IF r.method # "POST"
    THEN Answered("method", r, FALSE, ErrorResponse(405, "Method not allowed"))
    ELSE [pc |-> "parse", req |-> r]

\* From the outcome of parseForm to `await processImage(personFile)`.
handlerParsed(r, form) ==
    IF ~form.ok THEN Answered("parse", r, FALSE, classifyError(form.message))
    ELSE IF ~form.value.person.present \/ ~form.value.garment.present
    THEN Answered("presence", r, FALSE,
             ErrorResponse(400, "Both person and garment images are required"))
    ELSE IF ~validateImage(form.value.person).valid
    THEN Answered("validation", r, FALSE,
             ErrorResponse(400, "Person image: " \o validateImage(form.value.person).error))
    ELSE IF ~validateImage(form.value.garment).valid
    THEN Answered("validation", r, FALSE,
             ErrorResponse(400, "Garment image: " \o validateImage(form.value.garment).error))
    ELSE [pc |-> "person", req |-> r]

\* handlerPerson that parses the form again when processImage has thrown
handlerPerson_StartsOver(r) ==
    LET personBase64 == processImage(r.person)
    IN  IF ~personBase64.ok
        THEN [pc |-> "parse", req |-> r]
        ELSE [pc |-> "garment", req |-> r, personBase64 |-> personBase64.value]

\* From the end of processImage(personFile) to `await processImage(garmentFile)`.
handlerPerson(r) ==
    LET personBase64 == processImage(r.person)
    IN  IF ~personBase64.ok
        THEN Answered("person", r, FALSE, classifyError(personBase64.message))
        ELSE [pc |-> "garment", req |-> r, personBase64 |-> personBase64.value]

\* handlerGarment that sends the request whatever the credential is
handlerGarment_NoCredentialCheck(c, apiKey) ==
    LET garmentBase64 == processImage(c.req.garment)
    IN  IF ~garmentBase64.ok
        THEN Answered("garment", c.req, FALSE, classifyError(garmentBase64.message))
        ELSE [pc |-> "fetch", req |-> c.req, apiKey |-> apiKey, calls |-> 1,
              body |-> requestBody(c.personBase64, garmentBase64.value,
                                   OrElse(c.req.person.mimetype, "image/jpeg"),
                                   OrElse(c.req.garment.mimetype, "image/png"),
                                   OrElse(c.req.prompt, DefaultPrompt))]

\* From the end of processImage(garmentFile) to the `await fetch(...)` inside
\* callGeminiAPI, which reads the credential first.
handlerGarment(c, apiKey) ==
    LET garmentBase64 == processImage(c.req.garment)
    IN  IF ~garmentBase64.ok
        THEN Answered("garment", c.req, FALSE, classifyError(garmentBase64.message))
        ELSE IF apiKey = ""
        THEN Answered("credential", c.req, FALSE,
                 classifyError("API key not configured yet - deployment test mode"))
        ELSE [pc |-> "fetch", req |-> c.req, apiKey |-> apiKey, calls |-> 1,
              body |-> requestBody(c.personBase64, garmentBase64.value,
                                   OrElse(c.req.person.mimetype, "image/jpeg"),
                                   OrElse(c.req.garment.mimetype, "image/png"),
                                   OrElse(c.req.prompt, DefaultPrompt))]

\* The handler's answer with the provider's reply that led to it, what
\* callGeminiAPI made of the reply, and the calls made to the provider.
AnsweredReply(c, reply, result, response) ==
    [pc |-> "done", stage |-> "provider", req |-> c.req, fetched |-> TRUE,
     response |-> response, reply |-> reply, result |-> result, body |-> c.body,
     apiKey |-> c.apiKey, calls |-> c.calls]

\* handlerReplied that sends the request once more after a failed call
handlerReplied_Retries(c, reply) ==
    LET resultBase64 == callGeminiAPIResult(reply)
    IN  IF resultBase64.ok
        THEN AnsweredReply(c, reply, resultBase64,
                 Response(200, [image |-> resultBase64.value]))
        ELSE IF c.calls < 2 THEN [c EXCEPT !.calls = c.calls + 1]
        ELSE AnsweredReply(c, reply, resultBase64, classifyError(resultBase64.message))

\* handlerReplied that names the URL it called in its error
handlerReplied_NamesUrl(c, reply) ==
    LET resultBase64 == callGeminiAPIResult(reply)
    IN  IF resultBase64.ok
        THEN AnsweredReply(c, reply, resultBase64,
                 Response(200, [image |-> resultBase64.value]))
        ELSE AnsweredReply(c, reply, resultBase64,
                 classifyError(resultBase64.message \o " for generateContent?key=" \o c.apiKey))

\* From the provider's answer to the handler's response.
handlerReplied(c, reply) ==
    LET resultBase64 == callGeminiAPIResult(reply)
    IN  IF resultBase64.ok
        THEN AnsweredReply(c, reply, resultBase64,
                 Response(200, [image |-> resultBase64.value]))
        ELSE AnsweredReply(c, reply, resultBase64, classifyError(resultBase64.message))

\* The steps of the handler leave the limiter alone: combine.ts does not
\* import it.
CombineStep(c) ==
    /\ combine' = c
    /\ UNCHANGED <<now, globalStats, ipData, last, pre>>

Post(r) ==
    /\ combine.pc = "idle"
    /\ CombineStep(handlerEntry(r))

FormParsed ==
    /\ combine.pc = "parse"
    /\ \E form \in parseForm(combine.req) :
         \E c \in {handlerParsed(combine.req, form)} : CombineStep(c)

PersonProcessed ==
    /\ combine.pc = "person"
    /\ CombineStep(handlerPerson(combine.req))

GarmentProcessed ==
    /\ combine.pc = "garment"
    /\ \E apiKey \in ApiKeys : CombineStep(handlerGarment(combine, apiKey))

ProviderReplied ==
    /\ combine.pc = "fetch"
    /\ \E reply \in ProviderReplies :
         \E c \in {handlerReplied(combine, reply)} : CombineStep(c)

\* The response is sent and the next request can come.
Close ==
    /\ combine.pc = "done"
    /\ CombineStep([pc |-> "idle"])

\* The combine endpoint, next to the test endpoint's simulate through which the
\* limiter gets its records.
NextCombine ==
    \/ \E r \in CombineRequests : Post(r)
    \/ FormParsed
    \/ PersonProcessed
    \/ GarmentProcessed
    \/ ProviderReplied
    \/ Close
    \/ \E req \in SimRequests : TestSimulate(req, PER_IP_LIMIT)

SpecCombine == Init /\ [][NextCombine]_vars

\* The combine endpoint alone, one request after the other.
NextHandler ==
    \/ \E r \in CombineRequests : Post(r)
    \/ FormParsed
    \/ PersonProcessed
    \/ GarmentProcessed
    \/ ProviderReplied
    \/ Close

\* The handler is at one of its awaits.
Awaiting == combine.pc \in {"parse", "person", "garment", "fetch"}

\* The continuation of whichever await the handler is at.
HandlerStep == FormParsed \/ PersonProcessed \/ GarmentProcessed \/ ProviderReplied

\* The handler's awaits end: the form is parsed or refused, sharp returns or
\* throws, and the call to the provider returns or fails.  The last conjunct
\* is WF_vars(HandlerStep) written out, with Awaiting in the place of
\* ENABLED <<HandlerStep>>_vars: at each await the continuation returns a
\* state at another pc, so the step is enabled exactly when Awaiting holds.
SpecCombineLive ==
    /\ Init
    /\ [][NextHandler]_vars
    /\ ([]<>(~Awaiting) \/ []<><<HandlerStep>>_vars)

-----------------------------------------------------------------------------
(* The handler as a function of the request, the credential and the reply *)

\* Credentials a deployment can be configured with.
Credentials == {"AIza-key", "AIza-429-quota"}

\* The handler's run on request r from entry to answer, with the outcome of
\* parseForm, the credential of the environment and the provider's reply to
\* the call, if the run comes to make one.
handler(r, form, apiKey, reply) ==
    LET entered == handlerEntry(r)
        parsed == handlerParsed(r, form)
        person == handlerPerson(r)
        sent == handlerGarment(person, apiKey)
    IN  IF entered.pc = "done" THEN entered
        ELSE IF parsed.pc = "done" THEN parsed
        ELSE IF person.pc = "done" THEN person
        ELSE IF sent.pc = "done" THEN sent
        ELSE handlerReplied(sent, reply)

\* A request and the reply the provider has for it.
InitCredential ==
    /\ now = DAY_MS
    /\ globalStats = [dailyCount |-> 0, resetTime |-> 0]
    /\ ipData = << >>
    /\ last = [op |-> "new", ip |-> "", again |-> FALSE]
    /\ pre = Limiter([dailyCount |-> 0, resetTime |-> 0], << >>)
    /\ combine \in {[pc |-> "given", req |-> r, reply |-> reply] :
                        r \in CombineRequests, reply \in ProviderReplies}

\* The same request, parsed the same way and given the same reply, handled
\* under each credential.
HandleUnderEach ==
    /\ combine.pc = "given"
    /\ \E form \in parseForm(combine.req) :
         combine' = [pc |-> "handled", req |-> combine.req, reply |-> combine.reply,
                     runs |-> [apiKey \in Credentials |->
                                  handler(combine.req, form, apiKey, combine.reply)]]
    /\ UNCHANGED <<now, globalStats, ipData, last, pre>>

NextCredential == HandleUnderEach

SpecCredential == InitCredential /\ [][NextCredential]_vars

-----------------------------------------------------------------------------
(* validateImage and processImage as functions of the file they are given *)

\* The longest side of an image given to them.
MaxSide == 4000

MediaTypes ==
    { "", "image/jpeg", "image/png", "image/gif", "image/webp", "image/",
      "image", "text/plain", "application/image/png", "Image/PNG" }

FileSizes == {0, 1, MAX_FILE_SIZE - 1, MAX_FILE_SIZE, MAX_FILE_SIZE + 1, 2 * MAX_FILE_SIZE}

Sides == {1, 600, MAX_DIMENSION - 1, MAX_DIMENSION, MAX_DIMENSION + 1, 2 * MAX_DIMENSION, MaxSide}

\* Files of every type and size: images of every width and height, and one
\* file of each type and size whose bytes are no image.
GivenFiles ==
    {UploadedFile("upload", PngHead, t, s, w, h, TRUE) :
        t \in MediaTypes, s \in FileSizes, w \in Sides, h \in Sides}
    \cup {UploadedFile("upload", TextHead, t, s, 0, 0, FALSE) :
        t \in MediaTypes, s \in FileSizes}

InitImage ==
    /\ now = DAY_MS
    /\ globalStats = [dailyCount |-> 0, resetTime |-> 0]
    /\ ipData = << >>
    /\ last = [op |-> "new", ip |-> "", again |-> FALSE]
    /\ pre = Limiter([dailyCount |-> 0, resetTime |-> 0], << >>)
    /\ combine \in {[pc |-> "file", file |-> f] : f \in GivenFiles}

\* validateImage(file)
Validate ==
    /\ combine.pc = "file"
    /\ combine' = [pc |-> "validated", file |-> combine.file,
                   result |-> validateImage(combine.file)]
    /\ UNCHANGED <<now, globalStats, ipData, last, pre>>

\* processImage(file), of a file that validateImage accepts
Process ==
    /\ combine.pc = "file"
    /\ validateImage(combine.file).valid
    /\ combine' = [pc |-> "processed", file |-> combine.file,
                   result |-> processImage(combine.file)]
    /\ UNCHANGED <<now, globalStats, ipData, last, pre>>

NextImage == Validate \/ Process

SpecImage == InitImage /\ [][NextImage]_vars

-----------------------------------------------------------------------------
(* Properties of the limiter.  `pre` is the limiter when the last operation  *)
(* was called, (globalStats, ipData) is the limiter it left, `now` the       *)
(* instant of the call.                                                      *)

\* The last operation asked checkRateLimit for a decision about last.ip.
Checked == last.op = "check"

\* The global window was started on the calendar day of the last operation.
WindowIsToday(g) == g.resetTime # 0 /\ ~isNewDay(g.resetTime, now)

\* The decision that admits a request.
Allow(remainingCalls, globalRemaining) ==
    [allowed |-> TRUE, remainingCalls |-> remainingCalls, globalRemaining |-> globalRemaining]

\* C1: an identity with no stored record, checked on a day on which nothing has
\* been recorded, is allowed with remainingCalls = 30 and globalRemaining = 400,
\* and the decision carries no delay and no message.
C1_FreshIdentityAllowed ==
    ( /\ Checked
      /\ last.ip \notin DOMAIN pre.data
      /\ (WindowIsToday(pre.stats) => pre.stats.dailyCount = 0) )
    => last.res = Allow(30, 400)

\* C1's case: a check of an identity without a record, on a new day, while the
\* limiter still holds the previous day's count and another identity's record.
C1_Witness ==
    /\ Checked
    /\ last.ip \notin DOMAIN pre.data
    /\ pre.stats.dailyCount > 0
    /\ pre.data # << >>
    /\ ~WindowIsToday(pre.stats)
    /\ last.res = Allow(30, 400)

\* C2: for an identity whose count on the current day is between 30 and 39,
\* with the global count below 400, a check made less than 60 s after its last
\* recorded request is a delay with 1 <= delay <= 60, and a check made 60 s or
\* more after it is allowed: the delay clears by the passage of time alone.
C2_SoftLimitDelay ==
    ( /\ Checked
      /\ last.ip \in DOMAIN ipData
      /\ ipData[last.ip].count \in 30..39
      /\ globalStats.dailyCount < 400 )
    => IF now - ipData[last.ip].lastRequest < 60000
       THEN /\ last.res.allowed = FALSE
            /\ "delay" \in DOMAIN last.res
            /\ last.res.delay \in 1..60
       ELSE /\ last.res.allowed = TRUE
            /\ "delay" \notin DOMAIN last.res

\* C2's case: an identity in the soft-limit band, just delayed at an earlier
\* instant, is allowed once 60 s have passed since its last recorded request,
\* nothing but the clock having changed its record.
C2_Witness ==
    /\ Checked
    /\ last.ip \in DOMAIN ipData
    /\ ipData[last.ip].count \in 30..39
    /\ now - ipData[last.ip].lastRequest >= 60000
    /\ ~isNewDay(ipData[last.ip].lastRequest, now)
    /\ last.res.allowed = TRUE

\* C3: once 40 requests are recorded for an identity on a calendar day, every
\* later check of it on that day is refused without a delay value, however
\* long ago its last request was.
C3_HardLimitReject ==
    ( /\ Checked
      /\ last.ip \in DOMAIN ipData
      /\ ipData[last.ip].count >= 40 )
    => /\ last.res.allowed = FALSE
       /\ "delay" \notin DOMAIN last.res

\* C3's case: a check of an identity with exactly 40 recorded requests, more
\* than 60 s after the last of them.
C3_Witness ==
    /\ Checked
    /\ last.ip \in DOMAIN ipData
    /\ ipData[last.ip].count = 40
    /\ now - ipData[last.ip].lastRequest >= 60000
    /\ last.res = [allowed |-> FALSE, message |-> HardRejectMessage]

\* C4: once 400 requests are recorded globally on a calendar day, every check,
\* of any identity, returns the global reject (allowed = false, no delay, the
\* 'Daily service limit reached' message): the global test comes first.
C4_GlobalLimitDominates ==
    ( /\ last.op \in {"check", "simulate"}
      /\ WindowIsToday(pre.stats)
      /\ pre.stats.dailyCount >= 400 )
    => last.res = [allowed |-> FALSE, message |-> GlobalRejectMessage]

\* C4's case: with 400 or more recorded globally, a check of an identity that
\* is in the soft-limit band less than 60 s after its last request.
C4_Witness ==
    /\ Checked
    /\ WindowIsToday(pre.stats)
    /\ pre.stats.dailyCount >= 400
    /\ last.ip \in DOMAIN pre.data
    /\ pre.data[last.ip].count \in 30..39
    /\ now - pre.data[last.ip].lastRequest < 60000
    /\ last.res = [allowed |-> FALSE, message |-> GlobalRejectMessage]

\* The last operation was a limiter operation, the first of a new calendar day.
FirstOfNewDay ==
    /\ last.op \notin {"new", "tick"}
    /\ pre.stats.resetTime # 0
    /\ isNewDay(pre.stats.resetTime, now)

C6_CheckNeverMutates ==
    Checked => /\ globalStats = pre.stats
               /\ ipData = pre.data

\* C6, amended: checkRateLimit (and getStats) change the limiter only by the
\* day-rollover reset made on entry.  With the window started today they leave
\* the counter and the map as they were; otherwise they set dailyCount to 0 and
\* the window start to now, and remove the records of earlier days and nothing
\* else.  No record is added and no count is raised.
C6_CheckOnlyResets ==
    last.op \in {"check", "stats"} =>
        IF WindowIsToday(pre.stats)
        THEN /\ globalStats = pre.stats
             /\ ipData = pre.data
        ELSE /\ globalStats = [dailyCount |-> 0, resetTime |-> now]
             /\ DOMAIN ipData =
                  {ip \in DOMAIN pre.data : ~isNewDay(pre.data[ip].firstRequest, now)}
             /\ \A ip \in DOMAIN ipData : ipData[ip] = pre.data[ip]

\* C6's case: a check that found records and a count from the day before, and
\* removed them.
C6_Witness ==
    /\ Checked
    /\ ~WindowIsToday(pre.stats)
    /\ pre.data # << >>
    /\ pre.stats.dailyCount > 0
    /\ ipData = << >>
    /\ globalStats = [dailyCount |-> 0, resetTime |-> now]

\* C7: consecutive checkRateLimit calls for one identity at one clock instant,
\* with no recordRequest between them, return the same decision.
C7_RepeatedCheckSameDecision ==
    [][ ( /\ last.op = "check"
          /\ last'.op = "check"
          /\ last'.ip = last.ip
          /\ now' = now )
        => last'.res = last.res ]_vars

\* C7's case: a check that repeats the check made just before it, of an
\* identity that has requests recorded.
C7_Witness ==
    /\ Checked
    /\ last.again
    /\ last.ip \in DOMAIN ipData
    /\ last.res.allowed = FALSE

\* C8: a recordRequest made on the calendar day of the window raises the
\* identity's count by exactly 1 (a new record has count 1 and firstRequest =
\* now), sets lastRequest to now, keeps an existing firstRequest, raises the
\* global dailyCount by exactly 1, and leaves the window start alone.
C8_RecordAddsOne ==
    ( /\ last.op = "record"
      /\ WindowIsToday(pre.stats) )
    => /\ last.ip \in DOMAIN ipData
       /\ ipData[last.ip].lastRequest = now
       /\ IF last.ip \in DOMAIN pre.data
          THEN /\ ipData[last.ip].count = pre.data[last.ip].count + 1
               /\ ipData[last.ip].firstRequest = pre.data[last.ip].firstRequest
          ELSE /\ ipData[last.ip].count = 1
               /\ ipData[last.ip].firstRequest = now
       /\ globalStats.dailyCount = pre.stats.dailyCount + 1
       /\ globalStats.resetTime = pre.stats.resetTime

\* C8's case: a recordRequest for an identity whose record was created at an
\* earlier instant of the day.
C8_Witness ==
    /\ last.op = "record"
    /\ WindowIsToday(pre.stats)
    /\ last.ip \in DOMAIN pre.data
    /\ pre.data[last.ip].firstRequest < now
    /\ ipData[last.ip].count = pre.data[last.ip].count + 1
    /\ ipData[last.ip].firstRequest = pre.data[last.ip].firstRequest

\* The handler's current step sends the generation request to the provider.
Dispatches == combine.pc = "garment" /\ combine'.pc = "fetch"

\* The limiter as a limiter call made at the instant of the step finds it.
LimiterNow == resetIfNewDay(globalStats, ipData, now)

\* C9: the combine handler asks the limiter about the caller before the
\* generation call, and with a decision that is not allowed it answers 429
\* and does not call the provider: whenever the handler sends the generation
\* request, checkRateLimit allows the caller at that instant.  (Of 31 valid
\* POSTs in a row the 31st would be answered 429, type "delay".)
C9_AdmissionBeforeGeneration ==
    [][ Dispatches =>
          Decision(LimiterNow, ClientIP[combine.req.origin], now).allowed ]_vars

\* C10: a combine request that passed validation and admission is recorded
\* once before the generation request is sent: at that step the caller's count
\* and the global dailyCount each grow by 1.
C10_RecordedBeforeDispatch ==
    [][ Dispatches =>
          LET ip == ClientIP[combine.req.origin]
          IN  /\ ip \in DOMAIN ipData'
              /\ ipData'[ip].count = GetOrDefault(LimiterNow.data, ip, now).count + 1
              /\ globalStats'.dailyCount = LimiterNow.stats.dailyCount + 1 ]_vars

-----------------------------------------------------------------------------
(* Properties of the rate-limit test endpoint *)

\* The last request was a simulate that the limiter did not allow.
Refused == last.op = "simulate" /\ ~last.res.allowed

-----------------------------------------------------------------------------
(* Properties of the combine endpoint *)

\* An image part is larger than 4 MiB.
Oversize(f) == f.present /\ f.size > 4194304

\* The request fails input validation: an image part is missing, or one
\* declares a type that is not image/*, is a WebP image, or is oversize.
FailsValidation(r) ==
    \/ ~r.person.present
    \/ ~r.garment.present
    \/ \E f \in {r.person, r.garment} :
          \/ ~StartsWith(f.mimetype, "image/")
          \/ f.mimetype = "image/webp"
          \/ Oversize(f)

\* C11: a combine request that fails input validation is answered by the step
\* that follows the parsing of its form, and that step leaves the limiter's
\* global counter and every per-identity record as they were; the generation
\* call has not been made for it.
C11_ValidationFailureSpendsNothing ==
    [][ ( /\ combine.pc = "parse"
          /\ FailsValidation(combine.req)
          /\ combine' # combine )
        => /\ combine'.pc = "done"
           /\ ~combine'.fetched
           /\ globalStats' = globalStats
           /\ ipData' = ipData ]_vars

\* C11's case: a request with a WebP image has been refused at validation
\* while the limiter holds the records of 30 requests.
C11_Witness ==
    /\ combine.pc = "done"
    /\ combine.stage = "validation"
    /\ FailsValidation(combine.req)
    /\ combine.req.person.mimetype = "image/webp"
    /\ ~combine.fetched
    /\ globalStats.dailyCount = 30
    /\ ipData # << >>

\* C12: a combine request in which either image part is larger than 4 MiB is
\* answered 400 with a body { error: message }, whichever part is oversize.
C12_OversizeIs400 ==
    ( /\ combine.pc = "done"
      /\ combine.req.method = "POST"
      /\ (Oversize(combine.req.person) \/ Oversize(combine.req.garment)) )
    => /\ combine.response.status = 400
       /\ DOMAIN combine.response.body = {"error"}

\* C13: a combine POST in which the person part, the garment part or both are
\* absent is answered 400 with the 'both images required' error at the
\* presence test, before any validation or processing of an image and with no
\* generation call.
C13_MissingPartIs400 ==
    ( /\ combine.pc = "done"
      /\ combine.req.method = "POST"
      /\ (~combine.req.person.present \/ ~combine.req.garment.present) )
    => /\ combine.stage = "presence"
       /\ combine.response =
            ErrorResponse(400, "Both person and garment images are required")
       /\ ~combine.fetched

\* C14: validateImage rejects a file if and only if its declared type is
\* missing or does not start with 'image/', or is exactly 'image/webp', or its
\* size exceeds 4194304 bytes; so WebP is rejected at every size, and a file of
\* exactly 4194304 bytes of an accepted type is valid.
C14_ValidateImageIff ==
    combine.pc = "validated" =>
        LET f == combine.file
            missingOrNotImage ==
                \/ f.mimetype = ""
                \/ Len(f.mimetype) < 6
                \/ SubSeq(f.mimetype, 1, 6) # "image/"
        IN  /\ combine.result.valid =
                ~(missingOrNotImage \/ f.mimetype = "image/webp" \/ f.size > 4194304)
            /\ f.mimetype = "image/webp" => ~combine.result.valid
            /\ (f.mimetype \in {"image/jpeg", "image/png"} /\ f.size = 4194304)
                  => combine.result.valid

\* C14's case: a PNG file of exactly 4194304 bytes has been found valid.
C14_Witness ==
    /\ combine.pc = "validated"
    /\ combine.file.mimetype = "image/png"
    /\ combine.file.size = 4194304
    /\ combine.result = [valid |-> TRUE]

\* C15: the combine endpoint accepts only JPG and PNG images: a file of any
\* other declared type is refused by validation, so the generation request is
\* sent only for two files declared image/jpeg or image/png.
C15_OnlyJpegAndPngForwarded ==
    combine.pc = "fetch" =>
        \A f \in {combine.req.person, combine.req.garment} :
            f.mimetype \in {"image/jpeg", "image/jpg", "image/png"}

\* The image processImage was given and the image its result encodes.
GivenImage == [width |-> combine.file.width, height |-> combine.file.height]
ProcessedImage == combine.result.value.size

\* processImage has returned for an accepted file whose bytes are an image.
Processed == combine.pc = "processed" /\ combine.file.decodable

\* C16: for an accepted image whose width and height are both within 1024,
\* processImage returns the base64 text of the very bytes it read: no resize,
\* no re-encoding, and the image is of the size it had.
C16_SmallImagePassesThrough ==
    ( /\ Processed
      /\ combine.file.width <= 1024
      /\ combine.file.height <= 1024 )
    => /\ combine.result.ok
       /\ combine.result.value.bytes = combine.file.name
       /\ combine.result.value.base64 = Base64(combine.file.head)
       /\ ProcessedImage = GivenImage

\* C16's case: a 1024 x 1024 PNG went through processImage and came back as
\* the base64 text of its own bytes.
C16_Witness ==
    /\ Processed
    /\ GivenImage = [width |-> 1024, height |-> 1024]
    /\ combine.file.head = <<137, 80, 78>>
    /\ combine.result.value.base64 = "iVBO"
    /\ combine.result.value.bytes = "upload"

\* |a - b|
Distance(a, b) == IF a >= b THEN a - b ELSE b - a

\* C17: for an accepted image wider or higher than 1024, the image returned
\* has both sides within 1024 and its longer side exactly 1024, no side is
\* longer than in the input, and the shorter side is the input's scaled by the
\* same factor, to within one pixel.
C17_LargeImageDownscaled ==
    ( /\ Processed
      /\ (combine.file.width > 1024 \/ combine.file.height > 1024) )
    => /\ combine.result.ok
       /\ ProcessedImage.width <= 1024
       /\ ProcessedImage.height <= 1024
       /\ Max(ProcessedImage.width, ProcessedImage.height) = 1024
       /\ ProcessedImage.width <= GivenImage.width
       /\ ProcessedImage.height <= GivenImage.height
       /\ ProcessedImage.width >= 1
       /\ ProcessedImage.height >= 1
       /\ Distance(ProcessedImage.width * GivenImage.height,
                   ProcessedImage.height * GivenImage.width)
            < Max(GivenImage.width, GivenImage.height)

\* C17's case: a 2048 x 1025 image came back as 1024 x 513, the shorter side
\* rounded from 512.5.
C17_Witness ==
    /\ Processed
    /\ GivenImage = [width |-> 2048, height |-> 1025]
    /\ ProcessedImage = [width |-> 1024, height |-> 513]
    /\ combine.result.value.bytes # combine.file.name

\* The handler has answered after a 2xx JSON answer of the provider whose
\* first candidate carries this completion status.
AnsweredFinish(finishReason) ==
    /\ combine.pc = "done"
    /\ combine.stage = "provider"
    /\ combine.reply.kind = "json"
    /\ Len(combine.reply.candidates) > 0
    /\ combine.reply.candidates[1].finishReason = finishReason

\* The 400 of a content-policy error.
ContentPolicyResponse ==
    ErrorResponse(400,
        "Content could not be generated. Please try different images that comply with safety guidelines.")

\* C19: when the provider answers 2xx with finishReason SAFETY on the first
\* candidate, the handler answers 400 with the content-safety error, not 500
\* or 502, and no image, also when the answer carries image data.
C19_SafetyBlockIs400 ==
    AnsweredFinish("SAFETY") => combine.response = ContentPolicyResponse

\* C19's case: a SAFETY answer that carries image data was answered 400.
C19_Witness ==
    /\ AnsweredFinish("SAFETY")
    /\ resultData(combine.reply.candidates) # ""
    /\ combine.response.status = 400

\* C20: when the provider answers 2xx with finishReason RECITATION on the
\* first candidate, the handler answers 400 as a content-policy error, like
\* for a safety block, and not the generic 500.
C20_RecitationBlockIs400 ==
    AnsweredFinish("RECITATION") => combine.response.status = 400

-----------------------------------------------------------------------------
(* Properties of the combine handler's answers to the provider's replies *)

\* The handler has answered after the provider's reply.
AnsweredProvider == combine.pc = "done" /\ combine.stage = "provider"

\* C21: whenever the provider answers a non-2xx status, with an HTML body, a
\* JSON error body or any other body, or a 2xx status with a body that is not
\* JSON, the handler answers 502 with a body { error: message }.
C21_UpstreamFailureIs502 ==
    AnsweredProvider /\ combine.reply.kind \in {"status", "text"} =>
        /\ combine.response.status = 502
        /\ DOMAIN combine.response.body = {"error"}

\* C22: when the provider answers a non-2xx status with a body that is not
\* HTML and is JSON carrying error.message, the Error callGeminiAPI throws is
\* 'API error: <error.message>'; the status with the cut body is thrown only
\* when no message could be parsed.
C22_ParsedMessageIsRaised ==
    /\ AnsweredProvider
    /\ combine.reply.kind = "status"
    /\ ~Includes(combine.reply.text, "<html>")
    /\ errorJsonMessage(combine.reply.text) # ""
    => combine.result = Thrown("API error: " \o errorJsonMessage(combine.reply.text))

\* The provider answered 2xx and JSON with a completion status of STOP or
\* none.
Completed ==
    /\ AnsweredProvider
    /\ combine.reply.kind = "json"
    /\ \/ Len(combine.reply.candidates) = 0
       \/ combine.reply.candidates[1].finishReason \in {"", "STOP"}

\* ... and with a first part in its first candidate.
CompletedWithPart ==
    /\ Completed
    /\ Len(combine.reply.candidates) > 0
    /\ Len(combine.reply.candidates[1].parts) > 0

FirstPart == combine.reply.candidates[1].parts[1]

\* A text that counts as image data: longer than 1000 characters and of
\* base64 characters only.
TextIsImage(text) == text.length > 1000 /\ text.base64

\* C23: for a 2xx answer whose completion status is STOP or absent,
\* callGeminiAPI returns the first non-empty of inline_data.data,
\* inlineData.data and a text longer than 1000 characters of base64
\* characters only, in that order; so the same image data in any one of the
\* three places is what it returns.
C23_FirstImageInFixedOrder ==
    CompletedWithPart =>
        /\ FirstPart.inline_data # "" =>
               combine.result = Returned(FirstPart.inline_data)
        /\ FirstPart.inline_data = "" /\ FirstPart.inlineData # "" =>
               combine.result = Returned(FirstPart.inlineData)
        /\ FirstPart.inline_data = "" /\ FirstPart.inlineData = ""
               /\ TextIsImage(FirstPart.text) =>
               combine.result = Returned(FirstPart.text.value)

\* C23's case: image data in all three places, the snake_case one returned.
C23_Witness ==
    /\ CompletedWithPart
    /\ FirstPart.inline_data = "IMG-A"
    /\ FirstPart.inlineData = "IMG-B"
    /\ FirstPart.text = Text("IMG-C", 1001, TRUE)
    /\ combine.result = Returned("IMG-A")

\* No image data in any of the three places of the answer.
NoImageData ==
    /\ Completed
    /\ \/ ~CompletedWithPart
       \/ /\ FirstPart.inline_data = ""
          /\ FirstPart.inlineData = ""
          /\ ~TextIsImage(FirstPart.text)

\* C24: when the provider answers 2xx with completion status STOP or absent
\* and none of the three places holds image data, an answer without
\* candidates or without parts included, callGeminiAPI throws the
\* no-image-data Error and the handler answers 502.
C24_NoImageDataIs502 ==
    NoImageData =>
        /\ combine.result = Thrown("Invalid response from Gemini API - no image data found")
        /\ combine.response.status = 502
        /\ DOMAIN combine.response.body = {"error"}

\* C24's case: an answer without candidates was answered 502.
C24_Witness ==
    /\ NoImageData
    /\ Len(combine.reply.candidates) = 0
    /\ combine.response.status = 502

\* C25: when no credential is configured, callGeminiAPI fails before any
\* network call and the handler answers 500 with the fixed configuration
\* message: the provider is called only with a credential, and the request
\* that finds none is answered, with that response and without a call.
C25_NoCredentialIs500 ==
    /\ combine.pc = "fetch" \/ AnsweredProvider => combine.apiKey # ""
    /\ combine.pc = "done" /\ combine.stage = "credential" =>
           /\ combine.response =
                  ErrorResponse(500, "Service configuration error. Please check API key.")
           /\ ~combine.fetched

\* C25's case: a request with two valid images found no credential and was
\* answered 500.
C25_Witness ==
    /\ combine.pc = "done"
    /\ combine.stage = "credential"
    /\ validateImage(combine.req.person).valid
    /\ validateImage(combine.req.garment).valid
    /\ combine.response.status = 500

\* The calls the handler has made to the provider for the request at hand.
Calls ==
    IF combine.pc = "fetch" \/ AnsweredProvider THEN combine.calls ELSE 0

\* The request at hand carried both files and validateImage accepted both.
BothValid ==
    /\ combine.req.person.present
    /\ combine.req.garment.present
    /\ validateImage(combine.req.person).valid
    /\ validateImage(combine.req.garment).valid

\* The handler has answered a request whose form was parsed, and not for
\* want of a credential.  A run that ends before callGeminiAPI has not read
\* the credential: it runs the same with one configured.
AnsweredParsed ==
    /\ combine.pc = "done"
    /\ combine.stage \notin {"method", "parse", "credential"}

\* C26 as stated: the provider is called at most once for a request, and
\* exactly once when both images pass validation and a credential is
\* configured.
C26_OnceWhenValidated ==
    /\ Calls <= 1
    /\ AnsweredParsed /\ BothValid => Calls = 1

\* C26: the provider is called at most once for a request, whatever the call
\* ends in, and exactly once when both images pass validation, sharp decodes
\* both and a credential is configured.
C26_OnceWhenProcessed ==
    /\ Calls <= 1
    /\ AnsweredParsed =>
           (Calls = 1 <=> /\ BothValid
                          /\ combine.req.person.decodable
                          /\ combine.req.garment.decodable)
    /\ combine.pc = "done" /\ combine.stage \in {"method", "parse", "credential"} =>
           Calls = 0

\* C26's case: the one call failed in transport and the handler answered
\* without a second one.
C26_Witness ==
    /\ AnsweredProvider
    /\ combine.reply = NetworkFailure
    /\ ~combine.result.ok
    /\ Calls = 1

\* C27: the handler answers 200 only when callGeminiAPI returned image data
\* taken from an answer whose completion status is STOP or absent, and the
\* image field is that non-empty value; an answer whose completion status is
\* present and not STOP is never answered 200, image data or not.
C27_OkOnlyWithCompletedImage ==
    /\ combine.pc = "done" /\ combine.response.status = 200 =>
           /\ CompletedWithPart
           /\ combine.result.ok
           /\ combine.result.value # ""
           /\ combine.result.value \in
                  {FirstPart.inline_data, FirstPart.inlineData, FirstPart.text.value}
           /\ combine.response.body = [image |-> combine.result.value]
    /\ AnsweredProvider /\ combine.reply.kind = "json" /\ ~Completed =>
           combine.response.status # 200

\* C27's case: image data under an absent completion status was answered 200
\* with that data.
C27_Witness ==
    /\ CompletedWithPart
    /\ combine.reply.candidates[1].finishReason = ""
    /\ FirstPart.inline_data = ""
    /\ FirstPart.inlineData = "IMG-B"
    /\ combine.response = Response(200, [image |-> "IMG-B"])

-----------------------------------------------------------------------------
(* The credential and the handler's responses *)

\* The text a response body carries.
BodyText(body) == IF "error" \in DOMAIN body THEN body.error ELSE body.image

\* C28: the handler's response does not depend on the value of the
\* credential: the same request with the same provider reply gets the same
\* status and body under any two non-empty credentials, and no body contains
\* the credential's text.
C28_ResponseIgnoresCredential ==
    combine.pc = "handled" =>
        /\ \A k1, k2 \in Credentials :
               combine.runs[k1].response = combine.runs[k2].response
        /\ \A k \in Credentials :
               ~Includes(BodyText(combine.runs[k].response.body), k)

\* C28's case: under both credentials the provider was called, its error was
\* echoed in the service error's text, and the two responses are one.
C28_Witness ==
    /\ combine.pc = "handled"
    /\ \A k \in Credentials :
           /\ combine.runs[k].stage = "provider"
           /\ combine.runs[k].apiKey = k
           /\ combine.runs[k].response.status = 502
           /\ StartsWith(combine.runs[k].response.body.error, "AI service error: ")

-----------------------------------------------------------------------------
(* The counters and their limits *)

\* C29: dailyCount never exceeds GLOBAL_DAILY_LIMIT in any reachable state,
\* whatever the sequence of requests to the endpoints that use the limiter,
\* the test endpoint's simulate (one check, then `count` recordings)
\* included.
C29_DailyCountWithinLimit ==
    globalStats.dailyCount <= GLOBAL_DAILY_LIMIT

\* C30: when every recordRequest of an identity comes directly after a
\* checkRateLimit of that identity that allowed it, with no other limiter
\* operation and no clock advance in between, then in every reachable state
\* each identity's count is at most DELAY_THRESHOLD, dailyCount is at most
\* GLOBAL_DAILY_LIMIT, and every recording made with the identity's count at
\* PER_IP_LIMIT or more comes at least DELAY_SECONDS after the identity's
\* recording before it.
C30_GatedCountersWithinLimits ==
    /\ \A ip \in DOMAIN ipData : ipData[ip].count <= DELAY_THRESHOLD
    /\ globalStats.dailyCount <= GLOBAL_DAILY_LIMIT
    /\ last.op = "record" /\ last.ip \in DOMAIN pre.data
           /\ pre.data[last.ip].count >= PER_IP_LIMIT =>
           now - pre.data[last.ip].lastRequest >= DELAY_SECONDS * 1000

\* C30's case: the first caller's 40th request was recorded a full delay
\* after its 39th.
C30_Witness ==
    /\ last.op = "record"
    /\ last.ip = Callers[1]
    /\ last.ip \in DOMAIN pre.data
    /\ pre.data[last.ip].count = DELAY_THRESHOLD - 1
    /\ ipData[last.ip].count = DELAY_THRESHOLD
    /\ now - pre.data[last.ip].lastRequest = DELAY_SECONDS * 1000

-----------------------------------------------------------------------------
(* The records and the global counter *)

RECURSIVE SumCounts(_)
\* The sum of count over the records of a map.
SumCounts(m) ==
    IF DOMAIN m = {} THEN 0
    ELSE LET ip == CHOOSE i \in DOMAIN m : TRUE
         IN  m[ip].count + SumCounts([i \in DOMAIN m \ {ip} |-> m[i]])

\* C31: in every reachable state of the limiter (each operation one step at
\* one instant of a clock that does not go back) dailyCount is the sum of
\* count over the stored records, and every stored record has count >= 1.
C31_DailyCountIsSumOfCounts ==
    /\ globalStats.dailyCount = SumCounts(ipData)
    /\ \A ip \in DOMAIN ipData : ipData[ip].count >= 1

\* C31's case: two identities hold records of different counts.
C31_Witness ==
    /\ Cardinality(DOMAIN ipData) = 2
    /\ \E a, b \in DOMAIN ipData : ipData[a].count < ipData[b].count
    /\ globalStats.dailyCount = SumCounts(ipData)

\* C32: every stored record has lastRequest >= firstRequest.
C32_LastNotBeforeFirst ==
    \A ip \in DOMAIN ipData : ipData[ip].lastRequest >= ipData[ip].firstRequest

\* C32's case: a record used again at a later instant than its first.
C32_Witness ==
    \E ip \in DOMAIN ipData :
        /\ ipData[ip].count > 1
        /\ ipData[ip].lastRequest > ipData[ip].firstRequest

\* C33: across one limiter operation the count of an identity's record stays,
\* grows, or the record is removed; a record is removed only by the
\* day-rollover reset and only when its firstRequest lies on another calendar
\* day than the current one, and the count of a record that stays stored is
\* never lowered.  (A recordRequest that is the first operation of a new day
\* removes the identity's old record and stores a new one, whose firstRequest
\* is now.)
C33_CountNeverLowered ==
    \A ip \in DOMAIN pre.data :
        IF ip \in DOMAIN ipData /\ ipData[ip].firstRequest = pre.data[ip].firstRequest
        THEN ipData[ip].count >= pre.data[ip].count
        ELSE /\ last.op \in {"check", "record", "stats"}
             /\ ~WindowIsToday(pre.stats)
             /\ isNewDay(pre.data[ip].firstRequest, now)
             /\ globalStats.resetTime = now

\* C33's case: a recordRequest, the first operation of a new day, for an
\* identity with a record of the day before.
C33_Witness ==
    /\ last.op = "record"
    /\ last.ip \in DOMAIN pre.data
    /\ pre.data[last.ip].count > 1
    /\ isNewDay(pre.data[last.ip].firstRequest, now)
    /\ ipData[last.ip] = [count |-> 1, firstRequest |-> now, lastRequest |-> now]

\* C34: the day-rollover reset happens once per change of calendar day: the
\* first limiter operation made on a calendar day other than that of the
\* window start resets (dailyCount restarts, the records of other days go, the
\* window starts now), and an operation made on the day of the window start
\* neither sets dailyCount back nor removes a record; after any operation the
\* window is of today, so the next one of the day does not reset.
C34_ResetOncePerDay ==
    last.op \in {"check", "record", "stats"} =>
        /\ WindowIsToday(globalStats)
        /\ IF WindowIsToday(pre.stats)
           THEN /\ globalStats.resetTime = pre.stats.resetTime
                /\ globalStats.dailyCount >= pre.stats.dailyCount
                /\ \A ip \in DOMAIN pre.data :
                       /\ ip \in DOMAIN ipData
                       /\ ipData[ip].firstRequest = pre.data[ip].firstRequest
           ELSE /\ globalStats.resetTime = now
                /\ globalStats.dailyCount = IF last.op = "record" THEN 1 ELSE 0
                /\ \A ip \in DOMAIN ipData : ~isNewDay(ipData[ip].firstRequest, now)

\* C34's case: an operation of the second day, after the one that reset, found
\* the day's count and records and left them.
C34_Witness ==
    /\ last.op = "stats"
    /\ Day(now) > 1
    /\ WindowIsToday(pre.stats)
    /\ pre.stats.dailyCount > 0
    /\ pre.data # << >>
    /\ globalStats = pre.stats
    /\ ipData = pre.data

-----------------------------------------------------------------------------
(* Recordings of requests that run side by side, and of different identities *)

\* The limiter the last operation worked on, once its resetIfNewDay was done.
PreToday == resetIfNewDay(pre.stats, pre.data, now)

\* C35: whatever the interleaving of requests (a request gives way to another
\* only at an await, and recordRequest has none), each recordRequest takes
\* effect as one read-modify-write: the k calls of a handler run raise
\* dailyCount by exactly k and the identity's count by exactly k, on top of
\* what the requests handled before have recorded that day; no update is lost.
C35_EveryRecordingCounts ==
    last.op = "simulate" /\ last.status = 200 =>
        /\ globalStats.dailyCount = PreToday.stats.dailyCount + last.body.currentCount
        /\ ipData[last.ip].count =
               GetOrDefault(PreToday.data, last.ip, now).count + last.body.currentCount

\* C35's case: the recordings of one request come on top of those of two
\* earlier requests of the day, one of them of the same identity.
C35_Witness ==
    /\ last.op = "simulate"
    /\ last.status = 200
    /\ last.body.currentCount = MaxBatch
    /\ Cardinality(DOMAIN PreToday.data) = 2
    /\ PreToday.data[last.ip].count = PER_IP_LIMIT
    /\ ipData[last.ip].count = PER_IP_LIMIT + MaxBatch

\* C36: recordRequest for one identity leaves the record of every other
\* identity as it was, and the decision checkRateLimit gives an identity
\* depends on the other identities only through dailyCount: it is the decision
\* the identity would get with the other records gone, and while dailyCount is
\* below GLOBAL_DAILY_LIMIT it is allow, delay or reject regardless of what
\* dailyCount below the limit the others have made.
C36_IdentitiesIndependent ==
    LET alone(ip, n) ==
            Limiter([PreToday.stats EXCEPT !.dailyCount = n],
                    [i \in DOMAIN PreToday.data \cap {ip} |-> PreToday.data[i]])
        kind(d) == <<d.allowed, "delay" \in DOMAIN d,
                     IF "message" \in DOMAIN d THEN d.message ELSE << >> >>
    IN  /\ last.op = "simulate" =>
               \A ip \in DOMAIN PreToday.data \ {last.ip} : ipData[ip] = PreToday.data[ip]
        /\ last.op = "check" =>
               /\ last.res = Decision(alone(last.ip, PreToday.stats.dailyCount), last.ip, now)
               /\ PreToday.stats.dailyCount < GLOBAL_DAILY_LIMIT =>
                      \A n \in {0, GLOBAL_DAILY_LIMIT - 1} :
                          kind(Decision(alone(last.ip, n), last.ip, now))
                              = kind(last.res)

\* C36's case: an identity with no requests is allowed while another identity
\* has used up its day, and dailyCount is below the limit.
C36_Witness ==
    /\ last.op = "check"
    /\ last.ip \notin DOMAIN PreToday.data
    /\ \E ip \in DOMAIN PreToday.data : PreToday.data[ip].count >= DELAY_THRESHOLD
    /\ PreToday.stats.dailyCount < GLOBAL_DAILY_LIMIT
    /\ last.res.allowed

-----------------------------------------------------------------------------
(* The rate-limit key *)

\* C37: the key of a request is the first comma-separated entry of the
\* forwarded-for header when the header is present, else the real-ip header,
\* else the connection address, else the socket address, else '127.0.0.1',
\* with a leading '::ffff:' removed; two requests share a record exactly when
\* these strings are equal.
C37_KeyOfRequest ==
    combine.pc = "requests" =>
        LET address(r) ==
                CASE r.forwarded # "" -> Trim(FirstEntry(r.forwarded))
                  [] r.forwarded = "" /\ r.realIp # "" -> r.realIp
                  [] r.forwarded = "" /\ r.realIp = "" /\ r.connection # "" -> r.connection
                  [] r.forwarded = "" /\ r.realIp = "" /\ r.connection = ""
                         /\ r.socket # "" -> r.socket
                  [] OTHER -> "127.0.0.1"
            key(r) == IF StartsWith(address(r), "::ffff:")
                      THEN SubSeq(address(r), 8, Len(address(r)))
                      ELSE address(r)
            keys == {key(combine.recorded[i]) : i \in 1..Len(combine.recorded)}
        IN  /\ DOMAIN ipData = keys
            /\ Len(combine.recorded) = 2 =>
                   /\ Cardinality(DOMAIN ipData) = 1
                          <=> key(combine.recorded[1]) = key(combine.recorded[2])
                   /\ \A ip \in DOMAIN ipData :
                          ipData[ip].count = 3 - Cardinality(DOMAIN ipData)

\* C37's case: a request known by its mapped connection address and one known
\* by a forwarded-for list share the record of 1.1.1.1.
C37_Witness ==
    /\ combine.pc = "requests"
    /\ combine.recorded = << Req("", "", "::ffff:1.1.1.1", "::ffff:3.3.3.3"),
                             Req("1.1.1.1, 9.9.9.9", "2.2.2.2", "3.3.3.3", "") >>
    /\ DOMAIN ipData = {"1.1.1.1"}
    /\ ipData["1.1.1.1"].count = 2

\* C38: after a POST to the test endpoint with action 'reset' the limiter is
\* reset: dailyCount is 0 and no record is left, so that an identity delayed
\* or refused before is allowed by its next check.
C38_ResetActionResets ==
    last.op = "reset" =>
        /\ globalStats.dailyCount = 0
        /\ ipData = << >>

\* C39: the handler answers the 500 'Service configuration error' only when
\* no credential is configured: no failure the provider reports, and no other
\* failure, is classified as a configuration error.
C39_ConfigurationErrorOnlyWithoutCredential ==
    /\ combine.pc = "done"
    /\ combine.response =
           ErrorResponse(500, "Service configuration error. Please check API key.")
    => combine.stage = "credential"

-----------------------------------------------------------------------------
(* The handler's answer to every request *)

\* C40: every combine request gets exactly one HTTP response on every path
\* (wrong method, missing image, validation failure, processing failure,
\* generation failure, success), provided the call to the provider returns or
\* fails: a request that has come is answered in the end, and an answer given
\* is not followed by another for that request.
C40_ExactlyOneResponse ==
    /\ [](combine.pc # "idle" => <>(combine.pc = "done"))
    /\ [][combine.pc = "done" => combine'.pc = "idle" \/ combine' = combine]_vars

\* C40's case: a request whose person image sharp could not decode was
\* answered, with the 500 of the catch block.
C40_Witness ==
    /\ combine.pc = "done"
    /\ combine.stage = "person"
    /\ ~combine.req.person.decodable
    /\ combine.response.status = 500

=============================================================================
